---------------------------- MODULE Spec2Model ----------------------------
(***************************************************************************)
(* A model of the JSON-RPC load-test harness: the range partitioners, the  *)
(* bounded dispatcher loops (runRpcTest and the getLogs runTest scripts),  *)
(* and the end-of-run statistics.                                          *)
(*                                                                         *)
(* The harness is single-threaded: every promise callback runs to its end  *)
(* before the next one starts, so each callback is one atomic action.      *)
(***************************************************************************)
EXTENDS Integers, Sequences, FiniteSets, TLC

(***************************************************************************)
(* Bounds of the model.                                                    *)
(***************************************************************************)
MaxEnd == 3
MaxUnitSize == 2
MaxGroup == 2
MaxConc == 3
MaxResults == 2
PartMin == 2
PartMax == 4
PartUnit == 4
PartGroup == 3

\* the request latencies (ms) an invocation may report
Latencies == {10, 20}

\* the values of START_BLOCK
StartBlocks == {0, 1}

\* the numbers of logs one response may carry
LogChoices == {0, 2}

\* the four dispatcher loops of the repository
\*   "rpc"   runRpcTest of src/lib/utils.ts       (progress bar uses clearLine)
\*   "rpc2"  runRpcTest of unnamed/part_000       (progress bar guarded by try)
\*   "logs"  runTest of unnamed/part_001          (batched eth_getLogs)
\*   "logs0" runTest of getLog/index.ts, part_002 (older eth_getLogs script)
Variants == {"rpc", "rpc2", "logs", "logs0"}

Min2(a, b) == IF a <= b THEN a ELSE b

Max2(a, b) == IF a >= b THEN a ELSE b

(***************************************************************************)
(* Range partitioners.  Each loop of the source is a recursive operator    *)
(* that carries the loop variable and the list built so far.               *)
(***************************************************************************)

\* utils.ts:37-39  for (let i = startBlock; i <= endBlock; i++) blocks.push([i])
RECURSIVE PerBlockLoop(_, _, _)
PerBlockLoop(i, endBlock, blocks) ==
  IF i <= endBlock
    THEN PerBlockLoop(i + 1, endBlock, Append(blocks, <<i>>))
    ELSE blocks

\* ChunkInner with the inner bound off by one (i + j < endBlock)
RECURSIVE ChunkInnerShort(_, _, _, _, _)
ChunkInnerShort(i, j, chunkSize, endBlock, chunk) ==
  IF j < chunkSize /\ i + j < endBlock
    THEN ChunkInnerShort(i, j + 1, chunkSize, endBlock, Append(chunk, i + j))
    ELSE chunk

\* ChunkInner with the size test off by one (j <= chunkSize)
RECURSIVE ChunkInnerLong(_, _, _, _, _)
ChunkInnerLong(i, j, chunkSize, endBlock, chunk) ==
  IF j <= chunkSize /\ i + j <= endBlock
    THEN ChunkInnerLong(i, j + 1, chunkSize, endBlock, Append(chunk, i + j))
    ELSE chunk

\* utils.ts:44-46  for (let j = 0; j < chunkSize && i + j <= endBlock; j++)
RECURSIVE ChunkInner(_, _, _, _, _)
ChunkInner(i, j, chunkSize, endBlock, chunk) ==
  IF j < chunkSize /\ i + j <= endBlock
    THEN ChunkInner(i, j + 1, chunkSize, endBlock, Append(chunk, i + j))
    ELSE chunk

\* utils.ts:42-48  for (let i = startBlock; i <= endBlock; i += chunkSize)
RECURSIVE ChunkLoop(_, _, _, _)
ChunkLoop(i, endBlock, chunkSize, blocks) ==
  IF i <= endBlock
    THEN ChunkLoop(i + chunkSize, endBlock, chunkSize,
                   Append(blocks, ChunkInner(i, 0, chunkSize, endBlock, <<>>)))
    ELSE blocks

\* utils.ts:28-52 (the same function is part_000:41-66)
createBlocksList(startBlock, endBlock, chunkSize) ==
  IF chunkSize <= 1
    THEN PerBlockLoop(startBlock, endBlock, <<>>)
    ELSE ChunkLoop(startBlock, endBlock, chunkSize, <<>>)

\* RangesLoop with a strict loop test (currentStart < endBlock)
RECURSIVE RangesLoopStrict(_, _, _, _)
RangesLoopStrict(currentStart, endBlock, blockRange, ranges) ==
  IF currentStart < endBlock
    THEN LET currentEnd == Min2(currentStart + blockRange - 1, endBlock)
         IN RangesLoopStrict(currentEnd + 1, endBlock, blockRange,
                             Append(ranges, <<currentStart, currentEnd>>))
    ELSE ranges

\* RangesLoop with a window one block too wide (currentStart + blockRange)
RECURSIVE RangesLoopWide(_, _, _, _)
RangesLoopWide(currentStart, endBlock, blockRange, ranges) ==
  IF currentStart <= endBlock
    THEN LET currentEnd == Min2(currentStart + blockRange, endBlock)
         IN RangesLoopWide(currentEnd + 1, endBlock, blockRange,
                           Append(ranges, <<currentStart, currentEnd>>))
    ELSE ranges

\* part_000:85-89  while (currentStart <= endBlock) { ... }
RECURSIVE RangesLoop(_, _, _, _)
RangesLoop(currentStart, endBlock, blockRange, ranges) ==
  IF currentStart <= endBlock
    THEN LET currentEnd == Min2(currentStart + blockRange - 1, endBlock)
         IN RangesLoop(currentEnd + 1, endBlock, blockRange,
                       Append(ranges, <<currentStart, currentEnd>>))
    ELSE ranges

\* slice(from, to) that takes the element at position to as well
SliceInclusive(s, from, to) == SubSeq(s, from + 1, Min2(to + 1, Len(s)))

\* Array.prototype.slice(from, to) for 0 <= from <= to, on a 1-based sequence
Slice(s, from, to) == SubSeq(s, from + 1, Min2(to, Len(s)))

\* GroupLoop that drops the batch that is not full
RECURSIVE GroupLoopFullOnly(_, _, _, _)
GroupLoopFullOnly(i, ranges, batchSize, batches) ==
  IF i + batchSize <= Len(ranges)
    THEN GroupLoopFullOnly(i + batchSize, ranges, batchSize,
                           Append(batches, Slice(ranges, i, i + batchSize)))
    ELSE batches

\* part_000:94-96  for (let i = 0; i < ranges.length; i += batchSize)
RECURSIVE GroupLoop(_, _, _, _)
GroupLoop(i, ranges, batchSize, batches) ==
  IF i < Len(ranges)
    THEN GroupLoop(i + batchSize, ranges, batchSize,
                   Append(batches, Slice(ranges, i, i + batchSize)))
    ELSE batches

\* part_000:75-99
createBlocksListLogs(startBlock, endBlock, blockRange, batchSize) ==
  GroupLoop(0, RangesLoop(startBlock, endBlock, blockRange, <<>>), batchSize, <<>>)

\* part_002:36-49, the range-pair createBlocksList of the older getLogs script
createBlocksListRanges(startBlock, endBlock, chunkSize) ==
  RangesLoop(startBlock, endBlock, chunkSize, <<>>)

(***************************************************************************)
(* State.                                                                  *)
(***************************************************************************)
VARIABLES
  mode,               \* "config": a script reading its configuration;
                      \* "run": a dispatcher run; "part": a partitioner call;
                      \* "agg": the accumulator fed on its own
  variant,            \* which dispatcher loop runs
  tty,                \* process.stdout is a terminal (has clearLine/cursorTo)
  concurrency,        \* config.concurrency
  startBlock,         \* config.startBlock
  endBlock,           \* config.endBlock
  unitSize,           \* config.chunkSize / config.batchSize / blockRange
  groupSize,          \* config.batchSize of the batched getLogs script
  units,              \* blockChunks / blockRanges: the work-unit sequence
  aggIn,              \* accumulator on its own: the response of every unit
  env,                \* command line and environment the configuration is read from
  pc,                 \* "idle" before the initial dispatch(), then "running"
  index,              \* let index = 0
  activeRequests,     \* let activeRequests = 0
  durations,          \* const durations: number[] = []
  processedChunks,    \* let processedChunks = 0
  totalLogs,          \* let totalLogs = 0
  totalBlocksScanned, \* let totalBlocksScanned = 0
  inflight,           \* units whose request promise is still pending
  succeeded,          \* units whose request promise was fulfilled
  failed,             \* units whose request promise was rejected
  thrown,             \* units whose .then callback threw; their .catch is queued
  statsLog,           \* the arguments of every run of the final statistics block
  resolveCalls,       \* number of calls of resolve()
  rejected,           \* reject(err) was called
  exited,             \* process.exit(1) was called
  launched,           \* the units whose request was started, in start order
  errLog,             \* the lines the .catch callbacks wrote with console.error
  requests,           \* the body of every request sent, in start order
  lastCompleted,      \* "completed" of the latest updateProgressBar call
  pIn,                \* partitioner call: the arguments
  pOut                \* partitioner call: the value returned

cfgVars == <<mode, variant, tty, concurrency, startBlock, endBlock, unitSize,
             groupSize, units, aggIn, env>>

runVars == <<pc, index, activeRequests, durations, processedChunks, totalLogs,
             totalBlocksScanned, inflight, succeeded, failed, thrown, statsLog,
             resolveCalls, rejected, exited, launched, errLog, requests,
             lastCompleted>>

partVars == <<pIn, pOut>>

vars == <<cfgVars, runVars, partVars>>

(***************************************************************************)
(* Configuration -> work units.                                            *)
(***************************************************************************)

\* utils.ts:124, part_000:172, part_001:119, part_002:73
WorkUnits(v, s, e, size, group) ==
  CASE v = "rpc"   -> createBlocksList(s, e, size)
    [] v = "rpc2"  -> createBlocksList(s, e, size)
    [] v = "logs"  -> createBlocksListLogs(s, e, size, group)
    [] v = "logs0" -> createBlocksListRanges(s, e, size)

\* utils.ts:125  const totalBlocks = config.endBlock - config.startBlock + 1
totalBlocks == endBlock - startBlock + 1

(***************************************************************************)
(* The progress bar.                                                       *)
(***************************************************************************)

\* utils.ts:13-14 and part_002:57-58 call process.stdout.clearLine(0) and
\* cursorTo(0) unguarded: the two methods exist only on a terminal stream, so
\* the call throws a TypeError when stdout is a pipe or a file.  part_000:20-35
\* writes inside try/catch ("environments where process.stdout methods might
\* not be available") and does not throw there.
UsesClearLine(v) == v \in {"rpc", "logs0"}

\* utils.ts:8-10 (part_000:16-18), barWidth = 100:
\* filledLength = Math.round(completed / total * 100), and
\* "-".repeat(100 - filledLength) throws a RangeError for a negative count,
\* that is when completed / total * 100 >= 100.5
updateProgressBarThrows(completed, total) ==
  \/ 200 * completed >= 201 * total
  \/ UsesClearLine(variant) /\ ~tty

(***************************************************************************)
(* fetchLogs of the batched getLogs script: the result computed from the   *)
(* ids the response carries.                                               *)
(***************************************************************************)
\* part_001:80  let minBlock = Number.MAX_SAFE_INTEGER  (2^53 - 1; here the
\* largest integer TLC represents, above every block number of the model)
MAX_SAFE_INTEGER == 2147483647

\* part_001:86-96: the ids of the response that name a requested range
MatchedIds(batch, ids) == {k \in ids : k >= 1 /\ k <= Len(batch)}

RECURSIVE SetMin(_)
SetMin(S) ==
  IF S = {} THEN MAX_SAFE_INTEGER
  ELSE LET x == CHOOSE y \in S : TRUE IN Min2(x, SetMin(S \ {x}))

RECURSIVE SetMax(_)
SetMax(S) ==
  IF S = {} THEN 0
  ELSE LET x == CHOOSE y \in S : TRUE IN Max2(x, SetMax(S \ {x}))

\* fetchLogsResult that takes fromBlock and toBlock from the same extreme
fetchLogsResultNarrow(batch, ids, logsCount, duration) ==
  LET m == MatchedIds(batch, ids)
      minBlock == SetMin({batch[k][1] : k \in m})
      maxBlock == SetMax({batch[k][1] : k \in m})
  IN [duration  |-> duration,
      logsCount |-> logsCount,
      fromBlock |-> IF minBlock = MAX_SAFE_INTEGER THEN 0 ELSE minBlock,
      toBlock   |-> maxBlock]

\* part_001:78-104
fetchLogsResult(batch, ids, logsCount, duration) ==
  LET m == MatchedIds(batch, ids)
      minBlock == SetMin({batch[k][1] : k \in m})
      maxBlock == SetMax({batch[k][2] : k \in m})
  IN [duration  |-> duration,
      logsCount |-> logsCount,
      fromBlock |-> IF minBlock = MAX_SAFE_INTEGER THEN 0 ELSE minBlock,
      toBlock   |-> maxBlock]

(***************************************************************************)
(* dispatch().                                                             *)
(***************************************************************************)

\* the JSON body of the request for unit u: makeBatchRequest (utils.ts:83-88,
\* part_000:131-136) and fetchLogs of part_001:47-60 map the elements of the
\* unit to call objects with id: index + 1 and send the array; fetchLogs of
\* getLog/index.ts:16-31 (part_002:10-25) sends one call object with id 1,
\* not wrapped in an array
RequestBody(u) ==
  IF variant = "logs0"
    THEN [kind |-> "object", calls |-> <<[id |-> 1, params |-> units[u]]>>]
    ELSE [kind |-> "array",
          calls |-> [k \in 1..Len(units[u]) |-> [id |-> k, params |-> units[u][k]]]]

\* LoopGuard that keeps one slot of the ceiling unused
LoopGuardStrict(a, i) == a + 1 < concurrency /\ i < Len(units)

\* LoopGuard that lets the counter pass the ceiling by one (<=)
LoopGuardLoose(a, i) == a <= concurrency /\ i < Len(units)

\* utils.ts:138  while (activeRequests < config.concurrency && index < blockChunks.length)
LoopGuard(a, i) == a < concurrency /\ i < Len(units)

\* DispatchLoop that takes the units from the far end (blockChunks[length - 1 - index])
RECURSIVE DispatchLoopReversed(_, _, _, _)
DispatchLoopReversed(a, i, fl, ln) ==
  IF LoopGuard(a, i)
    THEN DispatchLoopReversed(a + 1, i + 1, fl \cup {Len(units) - i},
                              Append(ln, Len(units) - i))
    ELSE <<a, i, fl, ln>>

\* DispatchLoop that starts at most one request per call
DispatchLoopOnce(a, i, fl, ln) ==
  IF LoopGuard(a, i)
    THEN <<a + 1, i + 1, fl \cup {i + 1}, Append(ln, i + 1)>>
    ELSE <<a, i, fl, ln>>

\* utils.ts:138-155: each turn of the loop counts the request, advances the
\* cursor and starts the request of unit i+1 (blockChunks[index++], 0-based);
\* ln lists the units started so far
RECURSIVE DispatchLoop(_, _, _, _)
DispatchLoop(a, i, fl, ln) ==
  IF LoopGuard(a, i)
    THEN DispatchLoop(a + 1, i + 1, fl \cup {i + 1}, Append(ln, i + 1))
    ELSE <<a, i, fl, ln>>

\* FinishCond without the test that no request is outstanding
FinishCondNoDrain(a, i) == i >= Len(units)

\* utils.ts:158  if (index >= blockChunks.length && activeRequests === 0)
FinishCond(a, i) == i >= Len(units) /\ a = 0

\* utils.ts:136-164 (part_000:184-212, part_001:131-182, part_002:83-125)
dispatch(a, i, fl, ln) ==
  LET L == DispatchLoop(a, i, fl, ln)
  IN [a |-> L[1], i |-> L[2], fl |-> L[3], ln |-> L[4],
      fin |-> FinishCond(L[1], L[2])]

\* the aggregates the .then callbacks accumulate
Aggregates ==
  [durations |-> durations, totalLogs |-> totalLogs,
   totalBlocksScanned |-> totalBlocksScanned]

\* Accumulate that overwrites the log counter instead of adding to it
AccumulateLastWins(v, acc, result) ==
  [durations |-> Append(acc.durations, result.duration),
   totalLogs |-> IF v = "logs" THEN result.logsCount ELSE acc.totalLogs,
   totalBlocksScanned |->
     IF v = "logs"
       THEN acc.totalBlocksScanned + (result.toBlock - result.fromBlock + 1)
       ELSE acc.totalBlocksScanned]

\* what the .then callback adds to the aggregates: durations.push(duration)
\* (utils.ts:146, part_002:101) and, in the batched getLogs script,
\* totalLogs += result.logsCount and
\* totalBlocksScanned += (result.toBlock - result.fromBlock + 1)  (part_001:141-143)
Accumulate(v, acc, result) ==
  [durations |-> Append(acc.durations, result.duration),
   totalLogs |-> IF v = "logs" THEN acc.totalLogs + result.logsCount ELSE acc.totalLogs,
   totalBlocksScanned |->
     IF v = "logs"
       THEN acc.totalBlocksScanned + (result.toBlock - result.fromBlock + 1)
       ELSE acc.totalBlocksScanned]

\* what the final statistics block reads from the aggregates acc:
\* displayStats(durations, totalTimeMs, totalBlocks) at utils.ts:161, the
\* inline block at part_001:161-179 and part_002:108-122
StatsArgsOf(acc) ==
  [durations |-> acc.durations,
   blocks    |-> CASE variant \in {"rpc", "rpc2"} -> totalBlocks
                   [] variant = "logs" -> acc.totalBlocksScanned
                   [] OTHER -> 0,
   logs      |-> acc.totalLogs]

\* what the final statistics block reads when it runs
StatsArgs == StatsArgsOf(Aggregates)

\* one call of dispatch() with the counter at a and the pending set fl
DispatchStep(a, fl) ==
  LET D == dispatch(a, index, fl, launched)
  IN /\ activeRequests' = D.a
     /\ index' = D.i
     /\ inflight' = D.fl
     /\ launched' = D.ln
     /\ requests' = requests \o [k \in 1..(D.i - index) |-> RequestBody(D.ln[index + k])]
     /\ statsLog' = IF D.fin THEN Append(statsLog, StatsArgs) ELSE statsLog
     /\ resolveCalls' = IF D.fin THEN resolveCalls + 1 ELSE resolveCalls

(***************************************************************************)
(* A dispatcher run.                                                       *)
(***************************************************************************)
\* no command line or environment is read
NoEnv ==
  [scenarioName |-> "default", FETCH_CONCURRENCY |-> 0, START_BLOCK |-> 0,
   END_BLOCK |-> 0, CHUNK_SIZE |-> 0]

NoCall == [fn |-> "none", startBlock |-> 0, endBlock |-> 0, size |-> 0, group |-> 0]

RunIdle ==
  /\ pc = "idle"
  /\ index = 0
  /\ activeRequests = 0
  /\ durations = <<>>
  /\ processedChunks = 0
  /\ totalLogs = 0
  /\ totalBlocksScanned = 0
  /\ inflight = {}
  /\ succeeded = {}
  /\ failed = {}
  /\ thrown = {}
  /\ statsLog = <<>>
  /\ resolveCalls = 0
  /\ rejected = FALSE
  /\ exited = FALSE
  /\ launched = <<>>
  /\ errLog = {}
  /\ requests = <<>>
  /\ lastCompleted = 0

\* The state when runRpcTest / runTest has built its work units and counters
\* (utils.ts:124-132) and has not yet called dispatch().  FETCH_CONCURRENCY
\* may be 0 (config.ts:36); START_BLOCK and END_BLOCK are not compared, so the
\* range may be empty; CHUNK_SIZE is at least 1 (config.ts:60).  Whether stdout
\* is a terminal is read only by the progress bars that call clearLine.
Init ==
  /\ mode = "run"
  /\ variant \in Variants
  /\ tty \in IF UsesClearLine(variant) THEN BOOLEAN ELSE {TRUE}
  /\ concurrency \in 0..MaxConc
  /\ startBlock \in StartBlocks
  /\ endBlock \in 0..MaxEnd
  /\ unitSize \in 1..MaxUnitSize
  /\ groupSize \in IF variant = "logs" THEN 1..MaxGroup ELSE {1}
  /\ units = WorkUnits(variant, startBlock, endBlock, unitSize, groupSize)
  /\ aggIn = <<>>
  /\ env = NoEnv
  /\ RunIdle
  /\ pIn = NoCall
  /\ pOut = <<>>

\* utils.ts:167  dispatch()  -- the initial call
Start ==
  /\ mode = "run"
  /\ pc = "idle"
  /\ pc' = "running"
  /\ DispatchStep(activeRequests, inflight)
  /\ UNCHANGED <<cfgVars, partVars, durations, processedChunks, totalLogs,
                 totalBlocksScanned, succeeded, failed, thrown, rejected, exited,
                 errLog, lastCompleted>>

\* CatchHandler without its call of dispatch()
CatchHandlerNoDispatch(fl) ==
  /\ activeRequests' = activeRequests - 1
  /\ inflight' = fl
  /\ UNCHANGED <<index, statsLog, resolveCalls, rejected, exited, launched,
                 requests>>

\* the .catch callback: utils.ts:150-154, part_000:198-202, part_001:153-157
\* log, decrement, dispatch(); part_002:104 and getLog/index.ts:78 call
\* reject(err) instead, and the script's top-level handler (part_002:132-135)
\* then ends the process with exit code 1.
CatchHandler(fl) ==
  IF variant = "logs0"
    THEN /\ rejected' = TRUE
         /\ exited' = TRUE
         /\ inflight' = fl
         /\ UNCHANGED <<activeRequests, index, statsLog, resolveCalls, launched,
                        requests>>
    ELSE /\ DispatchStep(activeRequests - 1, fl)
         /\ UNCHANGED <<rejected, exited>>

\* what the .catch callback of unit u writes before it decrements:
\* utils.ts:151 (part_000:199) prints blockNumbers.join(','), the const the
\* loop turn of unit u bound at utils.ts:140; part_001:154 prints index - 1,
\* the cursor of the run at the time the callback runs; part_002:104 and
\* getLog/index.ts:78 print nothing
LogFailure(u) ==
  errLog' =
    CASE variant \in {"rpc", "rpc2"} -> errLog \cup {[unit |-> u, logged |-> units[u]]}
      [] variant = "logs" -> errLog \cup {[unit |-> u, logged |-> index - 1]}
      [] OTHER -> errLog

\* the argument the .then callback hands to updateProgressBar as "completed":
\* processedChunks after its increment (utils.ts:147-148), or the cursor
\* (part_001:146, part_002:102)
ProgressCompleted(i) ==
  IF variant \in {"rpc", "rpc2"} THEN processedChunks + 1 ELSE i

\* The request of unit u is fulfilled with latency d; for the batched getLogs
\* script the response carries the ids `ids` and n logs.  The .then callback
\* runs: utils.ts:143-149, part_000:191-197, part_001:138-152, part_002:98-103.
Succeed(u, d, ids, n) ==
  LET result == fetchLogsResult(units[u], ids, n, d)
      A == Accumulate(variant, Aggregates, result)
  IN /\ mode = "run"
     /\ pc = "running"
     /\ ~exited
     /\ u \in inflight
     /\ succeeded' = succeeded \cup {u}
     /\ DispatchStep(activeRequests - 1, inflight \ {u})
     /\ durations' = A.durations
     /\ processedChunks' =
          IF variant \in {"rpc", "rpc2"} THEN processedChunks + 1 ELSE processedChunks
     /\ totalLogs' = A.totalLogs
     /\ totalBlocksScanned' = A.totalBlocksScanned
     /\ thrown' =
          IF updateProgressBarThrows(ProgressCompleted(index'), Len(units))
            THEN thrown \cup {u}
            ELSE thrown
     /\ lastCompleted' = ProgressCompleted(index')
     /\ UNCHANGED <<cfgVars, partVars, pc, failed, rejected, exited, errLog>>

\* Fail that records a latency sample for the failed request
FailCounted(u) ==
  /\ mode = "run"
  /\ pc = "running"
  /\ ~exited
  /\ u \in inflight
  /\ failed' = failed \cup {u}
  /\ LogFailure(u)
  /\ CatchHandler(inflight \ {u})
  /\ durations' = Append(durations, 0)
  /\ UNCHANGED <<cfgVars, partVars, pc, processedChunks, totalLogs,
                 totalBlocksScanned, succeeded, thrown, lastCompleted>>

\* The request of unit u is rejected (network error, or a response status
\* that is not ok: utils.ts:99-101); .then is skipped and .catch runs.
Fail(u) ==
  /\ mode = "run"
  /\ pc = "running"
  /\ ~exited
  /\ u \in inflight
  /\ failed' = failed \cup {u}
  /\ LogFailure(u)
  /\ CatchHandler(inflight \ {u})
  /\ UNCHANGED <<cfgVars, partVars, pc, durations, processedChunks, totalLogs,
                 totalBlocksScanned, succeeded, thrown, lastCompleted>>

\* The .then callback of unit u threw: the promise it returned is rejected
\* and the .catch chained on it runs (promise.then(f).catch(g)).
CatchThrown(u) ==
  /\ mode = "run"
  /\ pc = "running"
  /\ ~exited
  /\ u \in thrown
  /\ thrown' = thrown \ {u}
  /\ LogFailure(u)
  /\ CatchHandler(inflight)
  /\ UNCHANGED <<cfgVars, partVars, pc, durations, processedChunks, totalLogs,
                 totalBlocksScanned, succeeded, failed, lastCompleted>>

\* the ids a response to unit u may carry: any of the requested ids, and one
\* that names no requested range
ResponseIds(u) ==
  IF variant = "logs" THEN SUBSET (1..(Len(units[u]) + 1)) ELSE {{}}

LogCounts == IF variant = "logs" THEN LogChoices ELSE {0}

Next ==
  \/ Start
  \/ \E u \in inflight, d \in Latencies :
       \E ids \in ResponseIds(u), n \in LogCounts : Succeed(u, d, ids, n)
  \/ \E u \in inflight : Fail(u)
  \/ \E u \in thrown : CatchThrown(u)

Spec == Init /\ [][Next]_vars

\* Every enabled callback eventually runs: a pending request eventually
\* settles (the assumption under which the run is expected to end) and the
\* event loop runs every queued callback.
LiveSpec == Spec /\ WF_vars(Next)

(***************************************************************************)
(* A partitioner call on its own: the arguments are drawn at the start,    *)
(* one of the three partitioners is applied to them.                       *)
(***************************************************************************)
InitPart ==
  /\ mode = "part"
  /\ variant = "rpc"
  /\ tty = TRUE
  /\ concurrency = 0
  /\ startBlock = 0
  /\ endBlock = 0
  /\ unitSize = 1
  /\ groupSize = 1
  /\ units = <<>>
  /\ aggIn = <<>>
  /\ env = NoEnv
  /\ RunIdle
  /\ pIn \in [fn : {"none"},
              startBlock : (0 - PartMin)..PartMax,
              endBlock : (0 - PartMin)..PartMax,
              size : (0 - 1)..PartUnit,
              group : 1..PartGroup]
  /\ pOut = <<>>

\* createBlocksList(startBlock, endBlock, chunkSize)
CallCreateBlocksList ==
  /\ mode = "part"
  /\ pIn.fn = "none"
  /\ pIn.group = 1
  /\ pIn' = [pIn EXCEPT !.fn = "createBlocksList"]
  /\ pOut' = createBlocksList(pIn.startBlock, pIn.endBlock, pIn.size)
  /\ UNCHANGED <<cfgVars, runVars>>

\* createBlocksListLogs(startBlock, endBlock, blockRange, batchSize); with
\* blockRange < 1 and startBlock <= endBlock the while loop of part_000:85-89
\* does not end, so no value is returned
CallCreateBlocksListLogs ==
  /\ mode = "part"
  /\ pIn.fn = "none"
  /\ pIn.size >= 1 \/ pIn.startBlock > pIn.endBlock
  /\ pIn' = [pIn EXCEPT !.fn = "createBlocksListLogs"]
  /\ pOut' = createBlocksListLogs(pIn.startBlock, pIn.endBlock, pIn.size, pIn.group)
  /\ UNCHANGED <<cfgVars, runVars>>

\* createBlocksList(startBlock, endBlock, chunkSize) of part_002
CallCreateBlocksListRanges ==
  /\ mode = "part"
  /\ pIn.fn = "none"
  /\ pIn.group = 1
  /\ pIn.size >= 1 \/ pIn.startBlock > pIn.endBlock
  /\ pIn' = [pIn EXCEPT !.fn = "createBlocksListRanges"]
  /\ pOut' = createBlocksListRanges(pIn.startBlock, pIn.endBlock, pIn.size)
  /\ UNCHANGED <<cfgVars, runVars>>

NextPart ==
  \/ CallCreateBlocksList
  \/ CallCreateBlocksListLogs
  \/ CallCreateBlocksListRanges

SpecPart == InitPart /\ [][NextPart]_vars

(***************************************************************************)
(* Configuration: each script reads its configuration when it is loaded,   *)
(* then calls runRpcTest / runTest.                                        *)
(***************************************************************************)

\* the values of FETCH_CONCURRENCY: below the range, in it, above it
EnvConcurrency == {0 - 1, 0, 1, 100001}

EnvEndBlocks == {0, 1, 2}

EnvChunkSizes == {0, 1, 2}

\* the scenario names given as second argument; the scripts that call
\* parseBaseConfig directly do not read it
EnvScenarios(v) ==
  CASE v = "logs"  -> {"usdc-approvals", "no-such-scenario"}
    [] v = "logs0" -> {"default", "no-such-scenario"}
    [] OTHER       -> {"default"}

\* the case labels of createScenario's switch (config.ts:96-159)
ScenarioCases ==
  {"usdc-approvals", "usdc-aave-withdrawals", "user-token-transfers",
   "basenames-discounts"}

\* the keys of createScenarios (part_003:34-102)
ScenarioTable ==
  {"usdc-approvals", "usdc-aave-withdrawals", "usdc-some-random-users-transfers",
   "basenames-discounts", "default"}

\* the names a script knows as scenarios
DefinedScenarios(v) ==
  CASE v = "logs"  -> ScenarioCases
    [] v = "logs0" -> ScenarioTable
    [] OTHER       -> {}

NoConfig ==
  [ok |-> FALSE, concurrency |-> 0, startBlock |-> 0, endBlock |-> 0,
   unitSize |-> 1, groupSize |-> 1]

\* FetchConcurrencyValid that rejects 0 as well
FetchConcurrencyPositive(c) == ~(c > 100000 \/ c < 1)

\* config.ts:36, part_003:11: the value is rejected when
\* Number(env) > 100000 || Number(env) < 0
FetchConcurrencyValid(c) == ~(c > 100000 \/ c < 0)

\* config.ts:26-72 with the environment variables set: throws on a
\* FETCH_CONCURRENCY out of range, exits on a CHUNK_SIZE below 1
parseBaseConfig(e) ==
  IF ~FetchConcurrencyValid(e.FETCH_CONCURRENCY) THEN NoConfig
  ELSE IF e.CHUNK_SIZE < 1 THEN NoConfig
  ELSE [ok |-> TRUE, concurrency |-> e.FETCH_CONCURRENCY,
        startBlock |-> e.START_BLOCK, endBlock |-> e.END_BLOCK,
        unitSize |-> e.CHUNK_SIZE, groupSize |-> 1]

\* config.ts:86-191: every case of the switch, the default case included
\* ("not found. Using default configuration."), returns parseBaseConfig's
\* values with blockRange = 1000 (line 92); the cases differ in addresses,
\* topics and in the defaults the environment overrides
createScenario(e) ==
  LET base == parseBaseConfig(e)
  IN IF e.scenarioName \in ScenarioCases
       THEN [base EXCEPT !.unitSize = 1000, !.groupSize = base.unitSize]
       ELSE [base EXCEPT !.unitSize = 1000, !.groupSize = base.unitSize]

\* part_003:10-14 and 105-123: throws on a FETCH_CONCURRENCY out of range and
\* on a scenario name that is not a key of the table; the entries read here
\* ("default", part_003:90-101) have startBlock 0, endBlock 10_000,
\* chunkSize 1_000
getConfig(e) ==
  IF ~FetchConcurrencyValid(e.FETCH_CONCURRENCY) THEN NoConfig
  ELSE IF e.scenarioName \notin ScenarioTable THEN NoConfig
  ELSE [ok |-> TRUE, concurrency |-> e.FETCH_CONCURRENCY,
        startBlock |-> 0, endBlock |-> 10000, unitSize |-> 1000, groupSize |-> 1]

\* the configuration the script of loop v reads: part_001:5 and part_002:141
\* (parseBaseConfig), part_001:24-25 (createScenario), getLog/index.ts:7 and
\* part_002:1 (the module of part_003)
LoadedConfig(v, e) ==
  CASE v \in {"rpc", "rpc2"} -> parseBaseConfig(e)
    [] v = "logs"            -> createScenario(e)
    [] v = "logs0"           -> getConfig(e)

InitConfig ==
  /\ mode = "config"
  /\ variant \in Variants
  /\ tty \in IF UsesClearLine(variant) THEN BOOLEAN ELSE {TRUE}
  /\ env \in [scenarioName : EnvScenarios(variant),
              FETCH_CONCURRENCY : EnvConcurrency,
              START_BLOCK : StartBlocks,
              END_BLOCK : EnvEndBlocks,
              CHUNK_SIZE : EnvChunkSizes]
  /\ concurrency = 0
  /\ startBlock = 0
  /\ endBlock = 0
  /\ unitSize = 1
  /\ groupSize = 1
  /\ units = <<>>
  /\ aggIn = <<>>
  /\ RunIdle
  /\ pIn = NoCall
  /\ pOut = <<>>

\* The script is loaded: the configuration is read (an error ends the
\* process with a non-zero exit code), then runRpcTest / runTest builds the
\* work units (utils.ts:124, part_001:119).
LoadConfig ==
  LET c == LoadedConfig(variant, env)
  IN /\ mode = "config"
     /\ ~exited
     /\ IF c.ok
          THEN /\ mode' = "run"
               /\ concurrency' = c.concurrency
               /\ startBlock' = c.startBlock
               /\ endBlock' = c.endBlock
               /\ unitSize' = c.unitSize
               /\ groupSize' = c.groupSize
               /\ units' = WorkUnits(variant, c.startBlock, c.endBlock, c.unitSize,
                                     c.groupSize)
               /\ UNCHANGED exited
          ELSE /\ exited' = TRUE
               /\ UNCHANGED <<mode, concurrency, startBlock, endBlock, unitSize,
                              groupSize, units>>
     /\ UNCHANGED <<variant, tty, aggIn, env, partVars, pc, index, activeRequests,
                    durations, processedChunks, totalLogs, totalBlocksScanned,
                    inflight, succeeded, failed, thrown, statsLog, resolveCalls,
                    rejected, launched, errLog, requests, lastCompleted>>

NextConfig ==
  \/ LoadConfig
  \/ Next

SpecConfig == InitConfig /\ [][NextConfig]_vars

(***************************************************************************)
(* The accumulator on its own: every unit's response is drawn at the       *)
(* start, and the .then accumulation is applied to the units in any order. *)
(***************************************************************************)
\* the ids a response to the batch may carry here: none, the first requested
\* id only, every requested id, or only an id that names no requested range
AggIds(batch) ==
  IF variant = "logs"
    THEN {{}, {1}, 1..Len(batch), {Len(batch) + 1}}
    ELSE {{}}

InitAgg ==
  /\ mode = "agg"
  /\ variant \in {"rpc2", "logs"}
  /\ tty = TRUE
  /\ concurrency = 0
  /\ startBlock \in StartBlocks
  /\ unitSize \in 1..MaxUnitSize
  /\ groupSize \in IF variant = "logs" THEN 1..MaxGroup ELSE {1}
  /\ endBlock \in (startBlock - 1)..(startBlock - 1 + unitSize * groupSize * MaxResults)
  /\ units = WorkUnits(variant, startBlock, endBlock, unitSize, groupSize)
  /\ aggIn \in {f \in [1..Len(units) ->
                          [ids : SUBSET (1..(MaxGroup + 1)),
                           logsCount : LogCounts,
                           duration : Latencies]] :
                    \A u \in 1..Len(units) : f[u].ids \in AggIds(units[u])}
  /\ env = NoEnv
  /\ RunIdle
  /\ pIn = NoCall
  /\ pOut = <<>>

\* the result the request of unit u resolves with (part_001:98-103)
UnitResult(u) ==
  fetchLogsResult(units[u], aggIn[u].ids, aggIn[u].logsCount, aggIn[u].duration)

\* the accumulation of one .then callback, for unit u (part_001:141-143)
Feed(u) ==
  LET A == Accumulate(variant, Aggregates, UnitResult(u))
  IN /\ mode = "agg"
     /\ u \notin succeeded
     /\ succeeded' = succeeded \cup {u}
     /\ durations' = A.durations
     /\ totalLogs' = A.totalLogs
     /\ totalBlocksScanned' = A.totalBlocksScanned
     /\ UNCHANGED <<cfgVars, partVars, pc, index, activeRequests, processedChunks,
                    inflight, failed, thrown, statsLog, resolveCalls, rejected,
                    exited, launched, errLog, requests, lastCompleted>>

NextAgg == \E u \in 1..Len(units) : Feed(u)

SpecAgg == InitAgg /\ [][NextAgg]_vars

(***************************************************************************)
(* End-of-run statistics.                                                  *)
(***************************************************************************)
RECURSIVE SeqMin(_)
SeqMin(s) == IF Len(s) = 1 THEN s[1] ELSE Min2(s[1], SeqMin(Tail(s)))

RECURSIVE SeqMax(_)
SeqMax(s) == IF Len(s) = 1 THEN s[1] ELSE Max2(s[1], SeqMax(Tail(s)))

RECURSIVE SeqSum(_)
SeqSum(s) == IF s = <<>> THEN 0 ELSE s[1] + SeqSum(Tail(s))

\* Math.min(...durations): Infinity for an empty list (utils.ts:58)
MathMin(s) ==
  IF s = <<>> THEN [kind |-> "Infinity", val |-> 0]
  ELSE [kind |-> "number", val |-> SeqMin(s)]

\* Math.max(...durations): -Infinity for an empty list (utils.ts:59)
MathMax(s) ==
  IF s = <<>> THEN [kind |-> "-Infinity", val |-> 0]
  ELSE [kind |-> "number", val |-> SeqMax(s)]

\* durations.reduce((acc, val) => acc + val, 0) / durations.length: the
\* quotient sum/count kept as the pair; 0 / 0 is NaN (utils.ts:60)
Mean(s) ==
  IF s = <<>> THEN [kind |-> "NaN", sum |-> 0, count |-> 0]
  ELSE [kind |-> "number", sum |-> SeqSum(s), count |-> Len(s)]

\* utils.ts:57-71; part_001:165-179 and part_002:112-122 inline the same
displayStats(args) ==
  [requests |-> Len(args.durations),
   blocks   |-> args.blocks,
   logs     |-> args.logs,
   minTime  |-> MathMin(args.durations),
   maxTime  |-> MathMax(args.durations),
   avgTime  |-> Mean(args.durations)]

(***************************************************************************)
(* Claims.                                                                 *)
(***************************************************************************)
AllUnits == 1..Len(units)

\* the final statistics block has run (and resolve() was called)
Completed == resolveCalls >= 1

\* the dispatcher loops that carry on after a failed request
\* (utils.ts, part_000, part_001)
Continuing == variant \in {"rpc", "rpc2", "logs"}

\* C1: with a concurrency ceiling of at least 1, the number of requests
\* launched and not yet settled never exceeds the ceiling.
C1_OutstandingWithinCeiling ==
  (mode = "run" /\ concurrency >= 1) => Cardinality(inflight) <= concurrency

\* C2: completion happens only when every work unit has been launched and
\* every launched request has settled.
C2_CompletionOnlyWhenDrained ==
  (mode = "run" /\ Completed) => (index = Len(units) /\ inflight = {})

\* C3: the sample list handed to the final statistics holds one sample for
\* every request that succeeded, the one whose completion triggered the
\* statistics included.
C3_StatsSeeEverySuccess ==
  [][resolveCalls' > resolveCalls =>
       Len(statsLog'[Len(statsLog')].durations) = Cardinality(succeeded')]_vars

\* C5: in every dispatcher loop, a failed request does not abort the run:
\* the run's promise is not rejected and the process is not ended.
C5_FailureDoesNotAbort ==
  (mode = "run" /\ failed # {}) => (~rejected /\ ~exited)

\* C6: the outstanding-request counter is never negative.
C6_CounterNeverNegative == activeRequests >= 0

\* C9: the final statistics never hold a minimum, maximum or mean computed
\* over an empty sample list.
C9_NoStatsOverEmptySamples ==
  (mode = "run" /\ startBlock <= endBlock) =>
  \A k \in 1..Len(statsLog) :
    LET r == displayStats(statsLog[k])
    IN r.minTime.kind = "number" /\ r.maxTime.kind = "number"
       /\ r.avgTime.kind = "number"

\* C4: the final statistics run and resolve() is called exactly once: never
\* twice, and not zero times once every unit is launched and settled.
C4_CompletionExactlyOnce ==
  (mode = "run" /\ Continuing) =>
    /\ resolveCalls <= 1
    /\ Len(statsLog) = resolveCalls
    /\ (pc = "running" /\ index = Len(units) /\ inflight = {}) => resolveCalls = 1

\* a run of at least three units, two or more at a time, all settled
C4_Witness ==
  /\ mode = "run" /\ Continuing
  /\ concurrency >= 2 /\ Len(units) >= 3
  /\ succeeded \cup failed = AllUnits
  /\ succeeded # {} /\ failed # {}
  /\ resolveCalls = 1

\* C7: with a ceiling of at least 1, and every pending request eventually
\* settling, every unit is eventually launched and the run completes.
C7_EventuallyDone ==
  (mode = "run" /\ concurrency >= 1 /\ Continuing) =>
    <>(index = Len(units) /\ Completed)

\* a completed run with more units than the ceiling, some failed, some not
C7_Witness ==
  /\ mode = "run" /\ Continuing
  /\ concurrency >= 1 /\ Len(units) > concurrency
  /\ succeeded # {} /\ failed # {}
  /\ index = Len(units) /\ Completed

\* the run has ended after every request failed: all units launched, the
\* counter back at zero, the statistics run over zero samples
AllFailedDone ==
  /\ index = Len(units)
  /\ activeRequests = 0
  /\ resolveCalls = 1
  /\ Len(statsLog) = 1
  /\ displayStats(statsLog[1]).requests = 0

\* C8: a run in which no request ever succeeds still ends: all units are
\* launched, the counter returns to zero, the run completes, and the final
\* report counts zero samples.
C8_AllFailStillTerminates ==
  (mode = "run" /\ concurrency >= 1 /\ Continuing) =>
    <>(succeeded # {} \/ AllFailedDone)

\* every one of at least three units failed, and the run has ended
C8_Witness ==
  /\ mode = "run" /\ Continuing
  /\ concurrency >= 1 /\ Len(units) >= 3
  /\ failed = AllUnits
  /\ AllFailedDone

RECURSIVE Flatten(_)
Flatten(ss) == IF ss = <<>> THEN <<>> ELSE Head(ss) \o Flatten(Tail(ss))

\* the ascending sequence s, s+1, ..., e
Ascending(s, e) == [k \in 1..(e - s + 1) |-> s + k - 1]

\* C10: for start <= end and every unit size, the units createBlocksList
\* returns, concatenated, are exactly start, start+1, ..., end.
C10_UnitsCoverRange ==
  (mode = "part" /\ pIn.fn = "createBlocksList" /\ pIn.startBlock <= pIn.endBlock) =>
    Flatten(pOut) = Ascending(pIn.startBlock, pIn.endBlock)

\* a chunked partition of several units whose last unit is shorter
C10_Witness ==
  /\ mode = "part" /\ pIn.fn = "createBlocksList"
  /\ pIn.size >= 2 /\ Len(pOut) >= 2
  /\ Len(pOut[Len(pOut)]) < pIn.size
  /\ Len(pOut[1]) = pIn.size

\* C11: for every partitioner and every unit size >= 1, an interval with
\* start = end gives exactly one work unit, covering the single block start.
C11_SingleBlockSingleUnit ==
  (mode = "part" /\ pIn.fn # "none" /\ pIn.startBlock = pIn.endBlock /\ pIn.size >= 1) =>
    LET s == pIn.startBlock
    IN CASE pIn.fn = "createBlocksList" -> pOut = << <<s>> >>
         [] pIn.fn = "createBlocksListLogs" -> pOut = << << <<s, s>> >> >>
         [] pIn.fn = "createBlocksListRanges" -> pOut = << <<s, s>> >>

\* createBlocksListLogs on a single block with a window and a group wider than it
C11_Witness ==
  /\ mode = "part" /\ pIn.fn = "createBlocksListLogs"
  /\ pIn.startBlock = pIn.endBlock
  /\ pIn.size >= 2 /\ pIn.group >= 2
  /\ Len(pOut) = 1

\* ceil(n / d) for n >= 0 and d >= 1
CeilDiv(n, d) == (n + d - 1) \div d

\* the numbers of s are consecutive and ascending
Consecutive(s) == \A k \in 1..(Len(s) - 1) : s[k + 1] = s[k] + 1

\* C12: in chunked mode (unit size > 1, start <= end) createBlocksList returns
\* exactly ceil((end - start + 1) / unitSize) units, every unit is a non-empty
\* run of consecutive numbers, every unit but the last has exactly unitSize
\* numbers and the last has between 1 and unitSize; a unit size larger than
\* the range gives a single unit covering the whole range.
C12_ChunkedShape ==
  (mode = "part" /\ pIn.fn = "createBlocksList" /\ pIn.size > 1
     /\ pIn.startBlock <= pIn.endBlock) =>
    LET n == pIn.endBlock - pIn.startBlock + 1
    IN /\ Len(pOut) = CeilDiv(n, pIn.size)
       /\ \A k \in 1..Len(pOut) :
            /\ Len(pOut[k]) >= 1
            /\ Len(pOut[k]) <= pIn.size
            /\ Consecutive(pOut[k])
            /\ k < Len(pOut) => Len(pOut[k]) = pIn.size
       /\ pIn.size > n =>
            /\ Len(pOut) = 1
            /\ Len(pOut[1]) = n
            /\ pOut[1][1] = pIn.startBlock
            /\ pOut[1][n] = pIn.endBlock

\* three chunks or more, the last one shorter than the unit size
C12_Witness ==
  /\ mode = "part" /\ pIn.fn = "createBlocksList" /\ pIn.size > 1
  /\ Len(pOut) >= 3
  /\ Len(pOut[Len(pOut)]) < pIn.size

\* C13: for start <= end and window width W >= 1 the windows, read in order
\* across the batches, have fromBlock <= toBlock, start at start, end at end,
\* follow one another without gap or overlap, and all but possibly the last
\* are exactly W blocks wide.
C13_WindowsTileRange ==
  (mode = "part" /\ pIn.fn \in {"createBlocksListLogs", "createBlocksListRanges"}
     /\ pIn.startBlock <= pIn.endBlock /\ pIn.size >= 1) =>
    LET w == IF pIn.fn = "createBlocksListLogs" THEN Flatten(pOut) ELSE pOut
    IN /\ Len(w) >= 1
       /\ w[1][1] = pIn.startBlock
       /\ w[Len(w)][2] = pIn.endBlock
       /\ \A k \in 1..Len(w) :
            /\ w[k][1] <= w[k][2]
            /\ k > 1 => w[k][1] = w[k - 1][2] + 1
            /\ k < Len(w) => w[k][2] - w[k][1] + 1 = pIn.size

\* several batches of windows, the last window narrower than W
C13_Witness ==
  /\ mode = "part" /\ pIn.fn = "createBlocksListLogs"
  /\ pIn.size >= 2
  /\ Len(pOut) >= 2
  /\ LET w == Flatten(pOut)
     IN w[Len(w)][2] - w[Len(w)][1] + 1 < pIn.size

\* C14: createBlocksListLogs groups the window list into batches of group size
\* G >= 1 without reordering, dropping or duplicating a window: every batch is
\* non-empty, every batch but the last holds exactly G windows, and the
\* batches concatenated give back the window list.
C14_GroupingKeepsWindows ==
  (mode = "part" /\ pIn.fn = "createBlocksListLogs") =>
    /\ Flatten(pOut) = RangesLoop(pIn.startBlock, pIn.endBlock, pIn.size, <<>>)
    /\ \A k \in 1..Len(pOut) :
         /\ Len(pOut[k]) >= 1
         /\ Len(pOut[k]) <= pIn.group
         /\ k < Len(pOut) => Len(pOut[k]) = pIn.group

\* three windows in groups of two: a full batch, then a batch of one
C14_Witness ==
  /\ mode = "part" /\ pIn.fn = "createBlocksListLogs"
  /\ pIn.startBlock = 0 /\ pIn.endBlock = 4 /\ pIn.size = 2 /\ pIn.group = 2
  /\ pOut = << << <<0, 1>>, <<2, 3>> >>, << <<4, 4>> >> >>

\* C15: requests are started in work-unit order, each unit once: the units
\* started so far are 1, 2, ..., index in that order, whatever order the
\* completions arrive in, and when the run completes every unit was started.
C15_LaunchedInOrderOnce ==
  mode = "run" =>
    /\ launched = Ascending(1, index)
    /\ resolveCalls >= 1 => Len(launched) = Len(units)

\* three units started while the second one has settled before the first
C15_Witness ==
  /\ mode = "run"
  /\ Len(launched) >= 3
  /\ 2 \in succeeded \cup failed
  /\ 1 \in inflight

\* C16: on start, before any completion is processed, exactly
\* min(concurrency, number of units) requests are started; unit number
\* concurrency + 1 is started only after an earlier request has settled.
C16_InitialBurst ==
  (mode = "run" /\ pc = "running") =>
    /\ succeeded \cup failed = {} =>
         /\ Len(launched) = Min2(concurrency, Len(units))
         /\ Cardinality(inflight) = Len(launched)
    /\ Len(launched) > concurrency => succeeded \cup failed # {}

\* more units than the ceiling: the burst stops at the ceiling
C16_Witness ==
  /\ mode = "run" /\ pc = "running"
  /\ succeeded \cup failed = {}
  /\ concurrency >= 2
  /\ concurrency < Len(units)
  /\ Len(launched) = concurrency

\* C17: the failure path (.catch) leaves the latency samples, the processed
\* count and the counters of logs and blocks unchanged, and the statistics at
\* completion never hold more samples than units succeeded.
C17_FailureLeavesAggregates ==
  [][/\ (failed' # failed \/ errLog' # errLog \/ rejected' # rejected) =>
          UNCHANGED <<durations, processedChunks, totalLogs, totalBlocksScanned>>
     /\ Len(durations') <= Cardinality(succeeded')
     /\ resolveCalls' > resolveCalls =>
          Len(statsLog'[Len(statsLog')].durations) <= Cardinality(succeeded')]_vars

\* a run that completed with a failed unit and a succeeded unit
C17_Witness ==
  /\ mode = "run"
  /\ resolveCalls >= 1
  /\ failed # {}
  /\ succeeded # {}
  /\ Len(durations) = Cardinality(succeeded)

\* C19: every entry of the failure log names the unit whose request failed:
\* its block numbers for runRpcTest, its (0-based) batch number for the
\* batched getLogs script.
C19_FailureLogNamesFailedUnit ==
  mode = "run" =>
    \A e \in errLog :
      IF variant = "logs" THEN e.logged = e.unit - 1 ELSE e.logged = units[e.unit]

\* the aggregates after the results of units k, k+1, ... were added in unit order
RECURSIVE FeedInOrder(_, _)
FeedInOrder(k, acc) ==
  IF k > Len(units) THEN acc
  ELSE FeedInOrder(k + 1, Accumulate(variant, acc, UnitResult(k)))

NoAggregates == [durations |-> <<>>, totalLogs |-> 0, totalBlocksScanned |-> 0]

C20_UnmatchedBatchAddsNoBlocks ==
  [][\A u \in AllUnits :
       (/\ mode = "agg" /\ variant = "logs"
        /\ u \notin succeeded /\ u \in succeeded'
        /\ MatchedIds(units[u], aggIn[u].ids) = {}) =>
         totalBlocksScanned' = totalBlocksScanned]_vars

\* C22: the body of every request is an array of exactly n call objects for a
\* unit of n elements, with ids 1, 2, ..., n in element order, the k-th call
\* built from the k-th element; it is an array also for a single call.
C22_BodyIsNumberedArray ==
  mode = "run" =>
    \A r \in 1..Len(requests) :
      LET unit == units[launched[r]]
          n == IF variant = "logs0" THEN 1 ELSE Len(unit)
          body == requests[r]
      IN /\ body.kind = "array"
         /\ Len(body.calls) = n
         /\ \A k \in 1..n :
              /\ body.calls[k].id = k
              /\ body.calls[k].params = (IF variant = "logs0" THEN unit ELSE unit[k])

\* the number of block numbers held by the units of S
RECURSIVE BlocksIn(_)
BlocksIn(S) ==
  IF S = {} THEN 0
  ELSE LET u == CHOOSE x \in S : TRUE IN Len(units[u]) + BlocksIn(S \ {u})

\* C23: the blocks-processed figure runRpcTest reports at completion is the
\* number of block numbers in the units whose requests succeeded.
C23_BlocksProcessedCountsSuccesses ==
  [][(variant \in {"rpc", "rpc2"} /\ resolveCalls' > resolveCalls) =>
       displayStats(statsLog'[Len(statsLog')]).blocks = BlocksIn(succeeded')]_vars

\* C24: a raise in the success path after the decrement does not decrement
\* the counter again: in the loops that carry on after a failure the counter
\* always equals the number of requests started and not yet settled.
C24_CounterEqualsOutstanding ==
  (mode = "run" /\ Continuing) => activeRequests = Cardinality(inflight)

\* C25: after the initial dispatch and after every completion callback,
\* either the outstanding counter equals the concurrency ceiling or the
\* work-unit sequence is exhausted; a free slot never coexists with an
\* unit that was not started.
C25_CeilingAtSteadyState ==
  (mode = "run" /\ pc = "running" /\ Continuing) =>
    /\ activeRequests = concurrency \/ index = Len(units)
    /\ ~(Cardinality(inflight) < concurrency /\ index < Len(units))

\* a completion refilled the slot it freed, with units still waiting
C25_Witness ==
  /\ mode = "run" /\ pc = "running" /\ Continuing
  /\ concurrency >= 1
  /\ succeeded \cup failed # {}
  /\ activeRequests = concurrency
  /\ index < Len(units)

\* C26: the completed count of every progress update does not exceed the
\* number of units whose requests have completed at that moment, and reaches
\* the total only when all units have completed.
C26_ProgressWithinCompleted ==
  mode = "run" =>
    /\ lastCompleted <= Cardinality(succeeded \cup failed)
    /\ (Len(units) > 0 /\ lastCompleted = Len(units)) => succeeded \cup failed = AllUnits

\* C27: configuration parsing accepts a FETCH_CONCURRENCY of 0 (it is never
\* the reason a script ends while reading its configuration), and with
\* concurrency 0 and a non-empty work-unit sequence no request is ever
\* started and the completion signal never fires: the run stays with zero
\* outstanding requests and the cursor at the start.
C27_ZeroConcurrencyStalls ==
  /\ (mode = "config" /\ exited /\ env.FETCH_CONCURRENCY = 0) =>
       \/ variant # "logs0" /\ env.CHUNK_SIZE < 1
       \/ variant = "logs0" /\ env.scenarioName \notin ScenarioTable
  /\ (mode = "run" /\ concurrency = 0 /\ Len(units) > 0) =>
       /\ launched = <<>>
       /\ inflight = {}
       /\ activeRequests = 0
       /\ index = 0
       /\ resolveCalls = 0
       /\ statsLog = <<>>
       /\ pc = "running" => ~ENABLED Next

\* the initial dispatch() has returned with concurrency 0 and units waiting
C27_Witness ==
  /\ mode = "run" /\ pc = "running"
  /\ env.FETCH_CONCURRENCY = 0
  /\ concurrency = 0
  /\ Len(units) >= 2
  /\ index < Len(units)

\* C28: for start <= end, window width >= 1 and group size >= 1
\* createBlocksListLogs returns, and the number of windows it produced is
\* exactly ceil((end - start + 1) / width); so does the range-pair
\* createBlocksList, which runs the same window loop.
C28_WindowCountIsCeil ==
  (mode = "part" /\ pIn.fn \in {"createBlocksListLogs", "createBlocksListRanges"}
     /\ pIn.startBlock <= pIn.endBlock /\ pIn.size >= 1) =>
    LET n == pIn.endBlock - pIn.startBlock + 1
        windows == IF pIn.fn = "createBlocksListLogs" THEN Len(Flatten(pOut)) ELSE Len(pOut)
    IN /\ windows = CeilDiv(n, pIn.size)
       /\ pIn.fn = "createBlocksListLogs" => Len(pOut) = CeilDiv(windows, pIn.group)

\* a call that returned four windows or more in groups, the division not exact
C28_Witness ==
  /\ mode = "part" /\ pIn.fn = "createBlocksListLogs"
  /\ pIn.size >= 2 /\ pIn.group >= 2
  /\ Len(Flatten(pOut)) >= 4
  /\ (pIn.endBlock - pIn.startBlock + 1) % pIn.size # 0

\* C29: in a log scan over [start, end] where every batch succeeds and every
\* response carries all requested ids, the covered-block counts of the
\* batches (toBlock - fromBlock + 1) add up to exactly end - start + 1, for
\* every window width and group size.
C29_CoveredBlocksSumToRange ==
  (/\ mode = "agg" /\ variant = "logs"
   /\ startBlock <= endBlock
   /\ succeeded = AllUnits
   /\ \A u \in AllUnits : 1..Len(units[u]) \subseteq aggIn[u].ids) =>
    totalBlocksScanned = endBlock - startBlock + 1

\* two batches of two windows, all ids answered, all results added
C29_Witness ==
  /\ mode = "agg" /\ variant = "logs"
  /\ unitSize >= 2 /\ groupSize >= 2
  /\ Len(units) >= 2
  /\ succeeded = AllUnits
  /\ \A u \in AllUnits : aggIn[u].ids = 1..Len(units[u])
  /\ totalBlocksScanned > unitSize * groupSize

\* C21: when the scenario name given on the command line is not a defined
\* scenario of the script, configuration fails before any dispatch: the run
\* is never entered and no work unit is ever started.
C21_UnknownScenarioIsFatal ==
  (/\ mode \in {"config", "run"}
   /\ variant \in {"logs", "logs0"}
   /\ env.scenarioName \notin DefinedScenarios(variant)) =>
    /\ launched = <<>>
    /\ requests = <<>>

=============================================================================
